---- MODULE Spec2Model ----
(***************************************************************************)
(* Spybar: a supervisor that spawns a command, samples the files it has    *)
(* open for reading and draws progress bars in a box at the bottom of the  *)
(* terminal.                                                               *)
(*                                                                         *)
(* Threads (utils.py, SpyProcess): the main thread runs main(), the        *)
(* display loop print_progress() and, nested between two of its            *)
(* instructions, the Python-level signal handlers (SIGWINCH -> BottomBox   *)
(* .update, SIGINT -> KeyboardInterrupt); ticks_thread runs                *)
(* generate_ticks(); process_thread runs watch_process().                  *)
(***************************************************************************)
EXTENDS Integers, Sequences, FiniteSets, TLC

VARIABLES
    pc,              \* position of the main thread in main()/start_display()/print_progress()
    exc,             \* exception propagating in the main thread ("none" when there is none)
    stop,            \* print_progress: local `stop`
    ret,             \* main: local `ret` (None, or <<code>>)
    hostStatus,      \* exit status of the host process once it called exit(ret)
    proc,            \* the child: "none", "running", "exited"
    returncode,      \* what proc.wait() reports once the child has exited
    sent,            \* signals delivered to the child by SpyProcess.send_signal
    display_ticks,   \* SpyProcess.display_ticks: FALSE is a tick, TRUE is "done"
    ticks_thread,    \* "new", "running"
    process_thread,  \* "new", "waiting", "woken", "done"
    files_cache,     \* SpyProcess.files_cache: path -> size
    out,             \* the list list_files() returned to print_progress
    files,           \* Progress.files: insertion-ordered path -> FileProgress
    tqdm_made,       \* number of tqdm handles Progress.update has constructed
    last_height,     \* BottomBox.last_height
    buffer,          \* BottomBox.buffer: control sequences written, not yet flushed
    upd,             \* locals (size, lines) of the display loop's BottomBox.update in progress
    scroll,          \* terminal: bottom row of the scroll region (0: never set)
    rows,            \* terminal: number of rows
    tty,             \* terminal: TRUE when the TIOCGWINSZ ioctl succeeds
    interrupts,      \* number of SIGINT delivered to the host
    resizes,         \* number of SIGWINCH delivered to the host
    sigInLoop,       \* history: the signals that arrived while print_progress was active
    tickAfterExit,   \* history: a tick was enqueued after the child had exited
    cleanups,        \* history: number of calls of BottomBox.cleanup
    afterDone,       \* history: redraws the display loop completed after dequeuing "done"
    call,            \* history: inputs and outcome of the last list_files call
    purged,          \* history: path -> size it had in files_cache when last purged
    screen,          \* the terminal, followed where BottomBox and Progress run on their
                     \* own: cursor row, saved cursor row, rows holding text of the box
    draws,           \* history: the last two calls made to the BottomBox, newest last
    mapped,          \* history: Progress.files before the last update, handles dropped
    shortened        \* the last call of shorten_file_path: its inputs and its result

supVars  == <<pc, exc, stop, ret, hostStatus>>
procVars == <<proc, returncode, sent>>
thrVars  == <<display_ticks, ticks_thread, process_thread>>
smpVars  == <<files_cache, out>>
prgVars  == <<files, tqdm_made>>
boxVars  == <<last_height, buffer, upd, scroll>>
envVars  == <<rows, tty>>
sigVars  == <<interrupts, resizes>>
auxVars  == <<screen, draws, mapped, shortened>>
histVars == <<sigInLoop, tickAfterExit, cleanups, afterDone, call, purged, auxVars>>

vars == <<supVars, procVars, thrVars, smpVars, prgVars, boxVars, envVars, sigVars, histVars>>

-----------------------------------------------------------------------------
(* Bounds of the model *)

MaxQueue      == 2    \* ticks waiting in display_ticks
MaxInterrupts == 2    \* SIGINT delivered to the host
MaxResizes    == 1    \* SIGWINCH delivered to the host
MaxRows       == 4    \* terminal height
MaxFds        == 2    \* descriptors the child holds at once
MaxAfterDone  == 2    \* cap of the afterDone history counter
MaxTqdm       == 2    \* tqdm handles constructed in a run
MaxHandles    == 3    \* tqdm handles constructed by Progress.update on its own
MaxPathLen    == 6    \* characters of a file path given to shorten_file_path
MaxLines      == 2    \* lines the renderer callback of a BottomBox returns

None == <<>>

Paths     == {"a", "b"}
Modes     == {"r", "w"}
Sizes     == {1, 2}
Positions == {0}

(* popenfile values psutil reports for the child *)
Descriptors == [path : Paths, mode : Modes, position : Positions]

RECURSIVE SeqsUpTo(_, _)
SeqsUpTo(S, n) ==
    IF n = 0 THEN {<<>>}
    ELSE LET shorter == SeqsUpTo(S, n - 1)
         IN  shorter \cup {Append(s, x) : s \in {t \in shorter : Len(t) = n - 1}, x \in S}

FdLists == SeqsUpTo(Descriptors, MaxFds)

(* os.path.getsize per path: <<size>>, or None when it raises *)
StatResults == [Paths -> {None} \cup {<<n>> : n \in Sizes}]

(* return codes of the child: exit statuses, and -SIGINT when killed by it *)
ExitStatuses == {0, 1, 255}

Restrict(f, S) == [x \in S |-> f[x]]

Min(a, b) == IF a < b THEN a ELSE b

Max(a, b) == IF a > b THEN a ELSE b

-----------------------------------------------------------------------------
(* FileProgressSampler: SpyProcess.open_files / SpyProcess.list_files *)

(* FileInfo(path, size, position) *)
FileInfo(path, size, position) == [path |-> path, size |-> size, position |-> position]

(* except (AccessDenied, NoSuchProcess): pass *)
Caught_NoSuchProcessForgotten(e) == e = "AccessDenied"
Caught(e) == e \in {"AccessDenied", "NoSuchProcess"}

(* The body of `for f in self.open_files()`, one descriptor after the other.  *)
(* stat[p] is what path.getsize(p) yields now; None stands for its OSError,   *)
(* which no except clause of list_files names.                                *)
RECURSIVE ScanFiles(_, _, _, _, _)
ScanFiles(fds, cache, in_use, acc, stat) ==
    IF fds = <<>>
    THEN [cache |-> cache, in_use |-> in_use, out |-> acc, raised |-> "none"]
    ELSE LET f == Head(fds) IN
         IF f.mode # "r"
         THEN ScanFiles(Tail(fds), cache, in_use, acc, stat)
         ELSE IF f.path \notin DOMAIN cache /\ stat[f.path] = None
         THEN [cache |-> cache, in_use |-> in_use \cup {f.path}, out |-> acc,
               raised |-> "FileNotFoundError"]
         ELSE LET cache2 == IF f.path \in DOMAIN cache
                            THEN cache
                            ELSE cache @@ (f.path :> stat[f.path][1])
              IN  ScanFiles(Tail(fds), cache2, in_use \cup {f.path},
                            Append(acc, FileInfo(f.path, cache2[f.path], f.position)),
                            stat)

(* for k in set(self.files_cache.keys()) - files_in_use: del self.files_cache[k] *)
PurgeCache_Skipped(cache, in_use) == cache
PurgeCache(cache, in_use) == Restrict(cache, DOMAIN cache \cap in_use)

(* list_files: enum is the outcome of self.open_files() ("ok", or the psutil   *)
(* error it raises), fds the descriptors it returns.  The result carries the   *)
(* new cache, the returned list and the exception that leaves the call.        *)
list_files(cache, enum, fds, stat) ==
    LET scan == IF enum = "ok"
                THEN ScanFiles(fds, cache, {}, <<>>, stat)
                ELSE [cache |-> cache, in_use |-> {}, out |-> <<>>,
                      raised |-> IF Caught(enum) THEN "none" ELSE enum]
    IN  IF scan.raised # "none"
        THEN [cache |-> scan.cache, out |-> <<>>, raised |-> scan.raised]
        ELSE [cache |-> PurgeCache(scan.cache, scan.in_use), out |-> scan.out,
              raised |-> "none"]

ReadPaths(fds) == {fds[i].path : i \in {j \in DOMAIN fds : fds[j].mode = "r"}}

NoCall == [made |-> FALSE]


(* the record kept of a call of list_files: how the enumeration ended, the    *)
(* read-mode paths it listed, what getsize yields for those the cache did not *)
(* hold, and the exception that left the call                                 *)
CallRecord(cache, enum, fds, stat, res) ==
    LET listed == IF enum = "ok" THEN ReadPaths(fds) ELSE {}
    IN  [made |-> TRUE, enum |-> enum, listed |-> listed,
         fresh |-> [p \in listed \ DOMAIN cache |-> stat[p]],
         raised |-> res.raised]

-----------------------------------------------------------------------------
(* shorten_file_path: a string is the sequence of its characters *)

Chars == {"/", ".", "a"}

FilePaths == SeqsUpTo(Chars, MaxPathLen)

(* getenv("HOME", None) *)
Homes == {None, <<"/", "a">>, <<"/", "a", "/">>}

(* an index of a Python slice, brought into 0..len *)
SliceIndex(i, len) == IF i < 0 THEN Max(len + i, 0) ELSE Min(i, len)

(* s[a:b] *)
Slice(s, a, b) == SubSeq(s, SliceIndex(a, Len(s)) + 1, SliceIndex(b, Len(s)))

(* s.startswith(prefix) *)
StartsWith(s, prefix) == Len(prefix) <= Len(s) /\ SubSeq(s, 1, Len(prefix)) = prefix

(* s.rstrip(c) *)
RECURSIVE RStrip(_, _)
RStrip(s, c) ==
    IF s # <<>> /\ s[Len(s)] = c THEN RStrip(SubSeq(s, 1, Len(s) - 1), c) ELSE s

(* s.split(sep) *)
RECURSIVE Split(_, _)
Split(s, sep) ==
    IF \A i \in DOMAIN s : s[i] # sep THEN <<s>>
    ELSE LET i == CHOOSE k \in DOMAIN s :
                      s[k] = sep /\ \A j \in 1..(k - 1) : s[j] # sep
         IN  <<SubSeq(s, 1, i - 1)>> \o Split(SubSeq(s, i + 1, Len(s)), sep)

(* s.rfind(c): the last 0-based index of c in s, -1 when there is none *)
RFind(s, c) ==
    IF \A i \in DOMAIN s : s[i] # c THEN -1
    ELSE (CHOOSE k \in DOMAIN s : s[k] = c /\ \A j \in (k + 1)..Len(s) : s[j] # c) - 1

(* posixpath.join(a, *p) *)
RECURSIVE PathJoin(_, _)
PathJoin(acc, p) ==
    IF p = <<>> THEN acc
    ELSE LET b == Head(p) IN
         PathJoin(IF StartsWith(b, <<"/">>) THEN b
                  ELSE IF acc = <<>> \/ acc[Len(acc)] = "/" THEN acc \o b
                  ELSE acc \o <<"/">> \o b,
                  Tail(p))

(* posixpath.splitext(p): the extension starts at the last dot of the last   *)
(* segment, unless only dots precede it in that segment                      *)
splitext(p) ==
    LET sepIndex == RFind(p, "/")
        dotIndex == RFind(p, ".")
    IN  IF /\ dotIndex > sepIndex
           /\ \E k \in (sepIndex + 1)..(dotIndex - 1) : p[k + 1] # "."
        THEN [name |-> Slice(p, 0, dotIndex), ext |-> Slice(p, dotIndex, Len(p))]
        ELSE [name |-> p, ext |-> <<>>]

(* if home: home = home.rstrip("/"); if file_path.startswith(home): ... *)
AbbreviateHome(file_path, home) ==
    IF home # None /\ StartsWith(file_path, RStrip(home, "/"))
    THEN <<"~">> \o Slice(file_path, Len(RStrip(home, "/")), Len(file_path))
    ELSE file_path

(* for i in range(1, len(parts) - 1): file_path is the last path joined when *)
(* the loop ends without returning                                           *)
RECURSIVE StripSegments(_, _, _, _)
StripSegments(parts, i, max_length, file_path) ==
    IF i >= Len(parts) - 1 THEN [returned |-> FALSE, file_path |-> file_path]
    ELSE LET joined == PathJoin(parts[i + 1], SubSeq(parts, i + 2, Len(parts))) IN
         IF Len(joined) <= max_length
         THEN [returned |-> TRUE, file_path |-> joined]
         ELSE StripSegments(parts, i + 1, max_length, joined)

(* the end of shorten_file_path: name, ext = path.splitext(file_path) ... *)
AbbreviateName(max_length, file_path) ==
    LET split           == splitext(file_path)
        max_name_length == max_length - Len(split.ext)
    IN  IF max_name_length < 5
        THEN Slice(file_path, 0, max_length - 3) \o <<".", ".", ".">>
        ELSE Slice(split.name, 0, max_name_length - 2) \o <<".", ".">> \o split.ext

shorten_file_path(max_length, file_path, home) ==
    LET abbreviated == AbbreviateHome(file_path, home) IN
    IF Len(abbreviated) <= max_length THEN abbreviated
    ELSE LET stripped == StripSegments(Split(abbreviated, "/"), 1, max_length, abbreviated)
         IN  IF stripped.returned THEN stripped.file_path
             ELSE AbbreviateName(max_length, stripped.file_path)

-----------------------------------------------------------------------------
(* ProgressModel: Progress.update / Progress._render *)

PathsOf(fs) == {fs[i].path : i \in DOMAIN fs}

IndexOf(fs, p) == CHOOSE i \in DOMAIN fs : fs[i].path = p

(* FileProgress(info, tqdm), under its key in self.files; a tqdm handle is    *)
(* known by its rank among the handles constructed so far                     *)
FileProgress(path, info, handle) == [path |-> path, info |-> info, tqdm |-> handle]

(* self.files[file.path]._replace(info=file) *)
ReplaceInfo_NewHandle(e, file) == [e EXCEPT !.info = file, !.tqdm = e.tqdm + 1]
ReplaceInfo(e, file) == [e EXCEPT !.info = file]

(* the loop `for file in files` of Progress.update: a path without an entry  *)
(* gets one with a newly constructed tqdm handle, the made-th one; an entry  *)
(* that exists keeps its handle and has its info replaced                    *)
RECURSIVE MergeFiles(_, _, _)
MergeFiles(fs, infos, made) ==
    IF infos = <<>> THEN [files |-> fs, made |-> made]
    ELSE LET file == Head(infos) IN
         IF file.path \notin PathsOf(fs)
         THEN MergeFiles(Append(fs, FileProgress(file.path, file, made)), Tail(infos),
                         made + 1)
         ELSE LET i == IndexOf(fs, file.path) IN
              MergeFiles([fs EXCEPT ![i] = ReplaceInfo(fs[i], file)], Tail(infos), made)

(* for absent in set(self.files.keys()) - present: del self.files[absent] *)
DropAbsent(fs, present) == SelectSeq(fs, LAMBDA e : e.path \in present)

(* Progress.update, before self.box.update(): the new self.files and the     *)
(* number of handles constructed so far                                      *)
ProgressUpdate(fs, infos, made) ==
    LET merged == MergeFiles(fs, infos, made)
    IN  [files |-> DropAbsent(merged.files, {infos[i].path : i \in DOMAIN infos}),
         made  |-> merged.made]

(* the last FileInfo of path p in the argument of Progress.update *)
LastInfo(infos, p) ==
    infos[CHOOSE i \in DOMAIN infos :
              /\ infos[i].path = p
              /\ \A j \in DOMAIN infos : infos[j].path = p => j <= i]

NoUpdate ==
    [made |-> FALSE, before |-> <<>>, made_before |-> 0, arg |-> <<>>,
     dropped |-> [p \in Paths |-> None]]

(* the record kept of a call of Progress.update: its argument, self.files    *)
(* and the number of handles before it, and per path the handle of the last  *)
(* entry that was deleted                                                    *)
UpdateRecord(fs, infos, made, was, after) ==
    [made |-> TRUE, before |-> fs, made_before |-> made, arg |-> infos,
     dropped |-> [p \in Paths |->
                    IF p \in PathsOf(fs) /\ p \notin PathsOf(after)
                    THEN <<fs[IndexOf(fs, p)].tqdm>> ELSE was[p]]]

(* Progress._render: one line per entry of self.files *)
render(fs) == [i \in DOMAIN fs |-> fs[i].path]

-----------------------------------------------------------------------------
(* BottomBoxRenderer: the control sequences BottomBox writes to its buffer *)

Tok(op, arg) == [op |-> op, arg |-> arg]

Repeat(t, n) == [i \in 1..n |-> t]

(* range(a, b) has max(0, b - a) elements *)
RangeLen(a, b) == IF b > a THEN b - a ELSE 0

(* BottomBox._adjust_for_height: the newlines, then the cursor-up moves *)
adjust_for_height_FromZero(last, new_height) ==
    Repeat(Tok("nl", 0), RangeLen(0, new_height))
        \o Repeat(Tok("up", 0), RangeLen(0, new_height))
adjust_for_height(last, new_height) ==
    Repeat(Tok("nl", 0), RangeLen(last + 1, new_height))
        \o Repeat(Tok("up", 0), RangeLen(last + 1, new_height))

(* BottomBox.update up to and including _set_scroll_region *)
UpdateHead(last, n, r) ==
    adjust_for_height(last, n) \o <<Tok("save", 0), Tok("region", r - n)>>

RECURSIVE DrawLines(_, _, _)
DrawLines(start, i, n) ==
    IF i >= n THEN <<>>
    ELSE <<Tok("row", start + i), Tok("clear", 0), Tok("text", i)>>
             \o DrawLines(start, i + 1, n)

(* BottomBox.update: the loop over the lines, then _restore_cursor *)
UpdateBody(n, r) == DrawLines(r - n + 1, 0, n) \o <<Tok("restore", 0)>>

RECURSIVE ClearRows(_, _, _)
ClearRows(start, i, n) ==
    IF i >= n THEN <<>>
    ELSE <<Tok("row", start + i), Tok("clear", 0)>> \o ClearRows(start, i + 1, n)

(* BottomBox.cleanup: everything it writes before _flush *)
CleanupToks(last, r) ==
    <<Tok("save", 0)>> \o ClearRows(r - last + 1, 0, last)
        \o <<Tok("region", r), Tok("restore", 0)>>

(* BottomBox._flush on the terminal: the last scroll region written wins *)
RECURSIVE FlushScroll(_, _)
FlushScroll(sc, toks) ==
    IF toks = <<>> THEN sc
    ELSE FlushScroll(IF Head(toks).op = "region" THEN Head(toks).arg ELSE sc, Tail(toks))

(* The terminal obeying one control sequence on a screen of r rows.  t holds  *)
(* the cursor row, the row kept by "save cursor", the bottom row of the      *)
(* scroll region (0: never set, the whole screen scrolls) and the rows that  *)
(* hold text of the bottom box.  A newline on the bottom row of the region   *)
(* scrolls the region up by one row; setting the region homes the cursor.    *)
TermStep(t, tok, r) ==
    LET bottom == IF t.bottom = 0 THEN r ELSE t.bottom IN
    CASE tok.op = "nl"      ->
             IF t.cur = bottom
             THEN [t EXCEPT !.box = {x - 1 : x \in {y \in t.box : y >= 2 /\ y <= bottom}}
                                        \cup {y \in t.box : y > bottom}]
             ELSE [t EXCEPT !.cur = Min(t.cur + 1, r)]
      [] tok.op = "up"      -> [t EXCEPT !.cur = Max(t.cur - 1, 1)]
      [] tok.op = "save"    -> [t EXCEPT !.saved = t.cur]
      [] tok.op = "restore" -> [t EXCEPT !.cur = t.saved]
      [] tok.op = "region"  -> [t EXCEPT !.bottom = tok.arg, !.cur = 1]
      [] tok.op = "row"     -> [t EXCEPT !.cur = Max(1, Min(tok.arg, r))]
      [] tok.op = "clear"   -> [t EXCEPT !.box = t.box \ {t.cur}]
      [] tok.op = "text"    -> [t EXCEPT !.box = t.box \cup {t.cur}]

RECURSIVE Terminal(_, _, _)
Terminal(t, toks, r) ==
    IF toks = <<>> THEN t ELSE Terminal(TermStep(t, Head(toks), r), Tail(toks), r)

(* BottomBox._flush on the terminal: what the screen holds afterwards.  Of   *)
(* the terminal, the supervisor as a whole follows the scroll region only.   *)
FlushScreen(scr, sc, toks, r) ==
    LET t == Terminal([cur |-> scr.cur, saved |-> scr.saved, bottom |-> sc,
                       box |-> scr.box], toks, r)
    IN  [cur |-> t.cur, saved |-> t.saved, box |-> t.box]

-----------------------------------------------------------------------------
(* SupervisorCore: control flow of the main thread *)

(* inside start_display, before print_progress is entered *)
StartPcs == {"sd_ticks", "sd_watch"}

(* inside the try block of print_progress *)
LoopPcs == {"pp_sample", "pp_update", "upd_body", "upd_flush", "pp_get"}

(* between the first buffered write of the display loop's update and its flush *)
MidUpdatePcs == {"upd_body", "upd_flush"}

ExceptPcs == {"except_KeyboardInterrupt", "except_SystemExit"}

(* the main thread has ended: exit(ret) was called, an exception was left     *)
(* unhandled, or the process was killed by a signal it does not handle        *)
EndPcs == {"exited", "raised", "killed"}

(* main: the except clauses of the try around sp.start_display(); any other  *)
(* exception stays pending while the finally clause runs                     *)
Dispatch(e) ==
    CASE e = "KeyboardInterrupt" -> [pc |-> "except_KeyboardInterrupt", exc |-> "none"]
      [] e = "SystemExit"        -> [pc |-> "except_SystemExit", exc |-> "none"]
      [] OTHER                   -> [pc |-> "main_finally", exc |-> e]

(* where an exception raised at position p takes the main thread *)
Unwind(p, e) ==
    CASE p \in LoopPcs           -> [pc |-> "pp_finally", exc |-> e]
      [] p \in StartPcs          -> Dispatch(e)
      [] p = "pp_finally"        -> Dispatch(e)
      [] p \in ExceptPcs         -> [pc |-> "main_finally", exc |-> e]
      [] OTHER                   -> [pc |-> "raised", exc |-> e]

(* print_progress: `while not stop` after `stop = self.display_ticks.get()` *)
AfterGet_OneMoreRound(s) == "pp_sample"
AfterGet_Inverted(s) == IF s THEN "pp_sample" ELSE "pp_finally"
AfterGet(s) == IF s THEN "pp_finally" ELSE "pp_sample"

(* watch_process: what it puts on the queue once return_code() returned *)
WatcherItem_Tick == FALSE
WatcherItem == TRUE

(* exit(ret): the status the operating system records for the host *)
ExitStatus_Truthy(code) == IF code = 0 THEN 0 ELSE 1
ExitStatus(code) == code % 256

(* main: the signal each except clause forwards *)
ForwardedSignal(p) == IF p = "except_KeyboardInterrupt" THEN "SIGINT" ELSE "SIGTERM"

(* signals the host handles in Python: SIGINT (the interpreter's default      *)
(* handler raises KeyboardInterrupt) and SIGWINCH (BottomBox.__init__);       *)
(* every other signal keeps the disposition of the operating system           *)
HandledSignals == {"SIGINT", "SIGWINCH"}

(* the state after construction, the cursor of the terminal standing on row c *)
Boot(c) ==
    /\ pc = "start" /\ exc = "none" /\ stop = FALSE /\ ret = None /\ hostStatus = None
    /\ proc = "none" /\ returncode = None /\ sent = <<>>
    /\ display_ticks = <<>> /\ ticks_thread = "new" /\ process_thread = "new"
    /\ files_cache = <<>> /\ out = <<>> /\ files = <<>> /\ tqdm_made = 0
    /\ last_height = 0 /\ buffer = <<>> /\ upd = None /\ scroll = 0
    /\ rows = MaxRows /\ tty \in BOOLEAN
    /\ interrupts = 0 /\ resizes = 0
    /\ sigInLoop = {} /\ tickAfterExit = FALSE /\ cleanups = 0 /\ afterDone = 0
    /\ call = NoCall /\ purged = [p \in Paths |-> None]
    /\ screen = [cur |-> c, saved |-> c, box |-> {}]
    /\ draws = <<>> /\ mapped = NoUpdate /\ shortened = None

(* the host is started from a shell whose prompt has reached the last row *)
Init == Boot(MaxRows)

(* the main thread moves to position p with pending exception e *)
Goto(p, e) == pc' = p /\ exc' = e

(* an exception e is raised in the main thread where it stands *)
Raise(e) == LET to == Unwind(pc, e) IN Goto(to.pc, to.exc)

(* main: sp.start() *)
start ==
    /\ pc = "start"
    /\ proc' = "running"
    /\ Goto("sd_ticks", exc)
    /\ UNCHANGED <<stop, ret, hostStatus, returncode, sent, thrVars, smpVars, prgVars,
                   boxVars, envVars, sigVars, histVars>>

(* start_display: self.ticks_thread.start() *)
start_ticks_thread ==
    /\ pc = "sd_ticks"
    /\ ticks_thread' = "running"
    /\ Goto("sd_watch", exc)
    /\ UNCHANGED <<stop, ret, hostStatus, procVars, display_ticks, process_thread,
                   smpVars, prgVars, boxVars, envVars, sigVars, histVars>>

(* start_display: self.process_thread.start(); self.print_progress() up to try *)
start_process_thread ==
    /\ pc = "sd_watch"
    /\ process_thread' = "waiting"
    /\ stop' = FALSE
    /\ Goto("pp_sample", exc)
    /\ UNCHANGED <<ret, hostStatus, procVars, display_ticks, ticks_thread,
                   smpVars, prgVars, boxVars, envVars, sigVars, histVars>>

-----------------------------------------------------------------------------
(* The display loop: SpyProcess.print_progress *)

(* what self.proc.open_files() can do: a child that has exited is gone *)
EnumOutcomes == IF proc = "running" THEN {"ok", "AccessDenied"} ELSE {"NoSuchProcess"}

(* the descriptor lists and getsize results the display loop is run against *)
CoreFdLists == {<<>>, <<[path |-> "a", mode |-> "r", position |-> 0]>>}
CoreStats   == {[p \in Paths |-> <<1>>], [p \in Paths |-> None]}

(* the child opens a file the progress display does not show yet only while  *)
(* fewer than MaxTqdm handles have been constructed                          *)
OpenedNow ==
    {fds \in CoreFdLists : ReadPaths(fds) \subseteq PathsOf(files) \/ tqdm_made < MaxTqdm}

(* files = self.list_files() *)
pp_list_files ==
    /\ pc = "pp_sample"
    /\ \E enum \in EnumOutcomes :
       \E fds \in IF enum = "ok" THEN OpenedNow ELSE {<<>>} :
       \E stat \in IF fds = <<>> THEN {[p \in Paths |-> <<1>>]} ELSE CoreStats :
          LET res == list_files(files_cache, enum, fds, stat) IN
          /\ files_cache' = res.cache
          /\ call' = CallRecord(files_cache, enum, fds, stat, res)
          /\ IF res.raised = "none"
             THEN out' = res.out /\ Goto("pp_update", exc)
             ELSE out' = <<>> /\ Raise(res.raised)
    /\ UNCHANGED <<stop, ret, hostStatus, procVars, thrVars, prgVars, boxVars, envVars,
                   sigVars, sigInLoop, tickAfterExit, cleanups, afterDone, purged, auxVars>>

(* self.progress.update(files), up to the scroll region written by            *)
(* BottomBox.update; the size query of BottomBox.update raises without a tty  *)
pp_update ==
    /\ pc = "pp_update"
    /\ files' = ProgressUpdate(files, out, tqdm_made).files
    /\ tqdm_made' = ProgressUpdate(files, out, tqdm_made).made
    /\ out' = <<>>
    /\ call' = NoCall
    /\ IF tty
       THEN LET n == Len(render(files')) IN
            /\ last_height' = n
            /\ buffer' = buffer \o UpdateHead(last_height, n, rows)
            /\ upd' = [n |-> n, rows |-> rows]
            /\ Goto("upd_body", exc)
       ELSE /\ UNCHANGED <<last_height, buffer, upd>>
            /\ Raise("OSError")
    /\ UNCHANGED <<stop, ret, hostStatus, procVars, thrVars, files_cache, scroll,
                   envVars, sigVars, sigInLoop, tickAfterExit, cleanups, afterDone, purged, auxVars>>

(* BottomBox.update: the lines and _restore_cursor *)
update_body ==
    /\ pc = "upd_body"
    /\ buffer' = buffer \o UpdateBody(upd.n, upd.rows)
    /\ Goto("upd_flush", exc)
    /\ UNCHANGED <<stop, ret, hostStatus, procVars, thrVars, smpVars, prgVars,
                   last_height, upd, scroll, envVars, sigVars, histVars>>

(* BottomBox.update: self._flush() *)
update_flush ==
    /\ pc = "upd_flush"
    /\ scroll' = FlushScroll(scroll, buffer)
    /\ buffer' = <<>>
    /\ upd' = None
    /\ afterDone' = IF stop THEN Min(afterDone + 1, MaxAfterDone) ELSE afterDone
    /\ Goto("pp_get", exc)
    /\ UNCHANGED <<stop, ret, hostStatus, procVars, thrVars, smpVars, prgVars,
                   last_height, envVars, sigVars, sigInLoop, tickAfterExit,
                   cleanups, call, purged, auxVars>>

(* stop = self.display_ticks.get(): blocks while the queue is empty *)
pp_get ==
    /\ pc = "pp_get"
    /\ display_ticks # <<>>
    /\ stop' = Head(display_ticks)
    /\ display_ticks' = Tail(display_ticks)
    /\ Goto(AfterGet(stop'), exc)
    /\ UNCHANGED <<ret, hostStatus, procVars, ticks_thread, process_thread, smpVars,
                   prgVars, boxVars, envVars, sigVars, histVars>>

(* finally: self.progress.close(), that is BottomBox.cleanup; then the       *)
(* pending exception, if any, goes on to main                                *)
pp_finally ==
    /\ pc = "pp_finally"
    /\ cleanups' = cleanups + 1
    /\ upd' = None
    /\ IF tty
       THEN /\ scroll' = FlushScroll(scroll, buffer \o CleanupToks(last_height, rows))
            /\ buffer' = <<>>
            /\ IF exc = "none"
               THEN Goto("main_finally", "none")
               ELSE Goto(Dispatch(exc).pc, Dispatch(exc).exc)
       ELSE /\ UNCHANGED <<scroll, buffer>>
            /\ Goto(Dispatch("OSError").pc, Dispatch("OSError").exc)
    /\ UNCHANGED <<stop, ret, hostStatus, procVars, thrVars, smpVars, prgVars,
                   last_height, envVars, sigVars, sigInLoop, tickAfterExit,
                   afterDone, call, purged, auxVars>>

-----------------------------------------------------------------------------
(* main, after sp.start_display() *)

(* except KeyboardInterrupt / except SystemExit: sp.send_signal(sig);        *)
(* psutil raises NoSuchProcess for a child that is gone, send_signal drops it *)
main_except ==
    /\ pc \in ExceptPcs
    /\ sent' = IF proc = "running" THEN Append(sent, ForwardedSignal(pc)) ELSE sent
    /\ Goto("main_finally", exc)
    /\ UNCHANGED <<stop, ret, hostStatus, proc, returncode, thrVars, smpVars, prgVars,
                   boxVars, envVars, sigVars, histVars>>

(* finally: ret = sp.return_code(), which blocks until the child has exited; *)
(* a pending exception then leaves main                                      *)
main_finally ==
    /\ pc = "main_finally"
    /\ proc = "exited"
    /\ ret' = returncode
    /\ Goto(IF exc = "none" THEN "main_exit" ELSE "raised", exc)
    /\ UNCHANGED <<stop, hostStatus, procVars, thrVars, smpVars, prgVars, boxVars,
                   envVars, sigVars, histVars>>

(* if ret is not None: exit(ret) *)
main_exit ==
    /\ pc = "main_exit"
    /\ hostStatus' = IF ret # None THEN <<ExitStatus(ret[1])>> ELSE <<0>>
    /\ Goto("exited", exc)
    /\ UNCHANGED <<stop, ret, procVars, thrVars, smpVars, prgVars, boxVars, envVars,
                   sigVars, histVars>>

-----------------------------------------------------------------------------
(* The background threads and the child *)

(* generate_ticks: self.display_ticks.put(False); sleep(period) *)
generate_ticks ==
    /\ ticks_thread = "running"
    /\ pc \notin EndPcs
    /\ Len(display_ticks) < MaxQueue
    /\ display_ticks' = Append(display_ticks, FALSE)
    /\ tickAfterExit' = (tickAfterExit \/ proc = "exited")
    /\ UNCHANGED <<supVars, procVars, ticks_thread, process_thread, smpVars, prgVars,
                   boxVars, envVars, sigVars, sigInLoop, cleanups, afterDone, call,
                   purged, auxVars>>

(* watch_process: self.return_code() returns once the child has exited *)
watch_process_wait ==
    /\ process_thread = "waiting"
    /\ pc # "killed"
    /\ proc = "exited"
    /\ process_thread' = "woken"
    /\ UNCHANGED <<supVars, procVars, display_ticks, ticks_thread, smpVars, prgVars,
                   boxVars, envVars, sigVars, histVars>>

(* watch_process: self.display_ticks.put(True) *)
watch_process_put ==
    /\ process_thread = "woken"
    /\ pc # "killed"
    /\ display_ticks' = Append(display_ticks, WatcherItem)
    /\ process_thread' = "done"
    /\ UNCHANGED <<supVars, procVars, ticks_thread, smpVars, prgVars, boxVars, envVars,
                   sigVars, histVars>>

(* the child ends: with an exit status, or killed by a signal it was sent *)
child_exit ==
    /\ proc = "running"
    /\ proc' = "exited"
    /\ \E code \in ExitStatuses \cup (IF sent # <<>> THEN {-2} ELSE {}) :
          returncode' = <<code>>
    /\ UNCHANGED <<supVars, sent, thrVars, smpVars, prgVars, boxVars, envVars, sigVars,
                   histVars>>

-----------------------------------------------------------------------------
(* Signals delivered to the host; Python runs a handler in the main thread,  *)
(* between two of its instructions, and to its end before the thread resumes *)

(* SIGINT: the default handler raises KeyboardInterrupt in the main thread *)
host_SIGINT ==
    /\ pc \notin EndPcs
    /\ interrupts < MaxInterrupts
    /\ interrupts' = interrupts + 1
    /\ sigInLoop' = IF pc \in LoopPcs THEN sigInLoop \cup {"SIGINT"} ELSE sigInLoop
    /\ Raise("KeyboardInterrupt")
    /\ UNCHANGED <<stop, ret, hostStatus, procVars, thrVars, smpVars, prgVars, boxVars,
                   envVars, resizes, tickAfterExit, cleanups, afterDone, call, purged, auxVars>>

(* SIGTERM: a handler raising SystemExit if one is installed, else the       *)
(* operating system ends the process                                         *)
host_SIGTERM ==
    /\ pc \notin EndPcs
    /\ IF "SIGTERM" \in HandledSignals
       THEN Raise("SystemExit")
       ELSE Goto("killed", exc)
    /\ sigInLoop' = IF pc \in LoopPcs THEN sigInLoop \cup {"SIGTERM"} ELSE sigInLoop
    /\ UNCHANGED <<stop, ret, hostStatus, procVars, thrVars, smpVars, prgVars, boxVars,
                   envVars, sigVars, tickAfterExit, cleanups, afterDone, call, purged, auxVars>>

(* SIGWINCH: lambda _, __: self.update(), the whole of BottomBox.update on   *)
(* the terminal as resized                                                   *)
host_SIGWINCH_Resampling ==
    /\ pc \notin EndPcs
    /\ resizes < MaxResizes
    /\ resizes' = resizes + 1
    /\ files_cache' = PurgeCache(files_cache, {})
    /\ UNCHANGED <<supVars, procVars, thrVars, out, prgVars, boxVars, envVars,
                   interrupts, histVars>>
host_SIGWINCH ==
    /\ pc \notin EndPcs
    /\ resizes < MaxResizes
    /\ resizes' = resizes + 1
    /\ rows' \in {MaxRows, MaxRows - 1}
    /\ IF tty
       THEN LET n == Len(render(files)) IN
            /\ last_height' = n
            /\ scroll' = FlushScroll(scroll, buffer \o UpdateHead(last_height, n, rows')
                                                 \o UpdateBody(n, rows'))
            /\ buffer' = <<>>
            /\ UNCHANGED <<pc, exc>>
       ELSE /\ UNCHANGED <<last_height, scroll, buffer>>
            /\ Raise("OSError")
    /\ UNCHANGED <<stop, ret, hostStatus, procVars, thrVars, smpVars, prgVars, upd, tty,
                   interrupts, histVars>>

-----------------------------------------------------------------------------
MainThread ==
    \/ start \/ start_ticks_thread \/ start_process_thread
    \/ pp_list_files \/ pp_update \/ update_body \/ update_flush \/ pp_get \/ pp_finally
    \/ main_except \/ main_finally \/ main_exit

WatcherThread == watch_process_wait \/ watch_process_put

Next ==
    \/ MainThread
    \/ generate_ticks
    \/ WatcherThread
    \/ child_exit
    \/ host_SIGINT \/ host_SIGTERM \/ host_SIGWINCH

Spec == Init /\ [][Next]_vars

(* Fair scheduling of the main thread and of the watcher thread; nothing is  *)
(* assumed of the timer, the child or the signals.                           *)
LiveSpec == Init /\ [][Next]_vars /\ WF_vars(MainThread) /\ WF_vars(WatcherThread)

-----------------------------------------------------------------------------
(* The sampler on its own: any sequence of list_files calls, against any     *)
(* descriptor list and any file sizes                                        *)

SamplerInit == Init /\ tty = TRUE

sample_call ==
    /\ \E enum \in {"ok", "AccessDenied", "NoSuchProcess"} :
       \E fds \in IF enum = "ok" THEN FdLists ELSE {<<>>} :
       \E stat \in StatResults :
          LET res == list_files(files_cache, enum, fds, stat) IN
          /\ files_cache' = res.cache
          /\ out' = res.out
          /\ call' = CallRecord(files_cache, enum, fds, stat, res)
          /\ purged' = [p \in Paths |->
                          IF p \in DOMAIN files_cache /\ p \notin DOMAIN res.cache
                          THEN <<files_cache[p]>> ELSE purged[p]]
    /\ UNCHANGED <<supVars, procVars, thrVars, prgVars, boxVars, envVars, sigVars,
                   sigInLoop, tickAfterExit, cleanups, afterDone, auxVars>>

SamplerNext == sample_call

SamplerSpec == SamplerInit /\ [][SamplerNext]_vars

-----------------------------------------------------------------------------
(* Progress on its own: any sequence of Progress.update calls, on a terminal *)
(* that answers the size query                                               *)

ProgressInit == Init /\ tty = TRUE

FileInfos == {FileInfo(p, n, k) : p \in Paths, n \in Sizes, k \in Positions}

InfoLists == SeqsUpTo(FileInfos, MaxFds)

(* Progress.update(files), self.box.update() included *)
progress_update ==
    /\ \E infos \in InfoLists :
          LET res  == ProgressUpdate(files, infos, tqdm_made)
              n    == Len(render(res.files))
              toks == buffer \o UpdateHead(last_height, n, rows) \o UpdateBody(n, rows)
          IN  /\ res.made <= MaxHandles
              /\ files' = res.files
              /\ tqdm_made' = res.made
              /\ mapped' = UpdateRecord(files, infos, tqdm_made, mapped.dropped, res.files)
              /\ last_height' = n
              /\ scroll' = FlushScroll(scroll, toks)
              /\ screen' = FlushScreen(screen, scroll, toks, rows)
              /\ buffer' = <<>>
    /\ UNCHANGED <<supVars, procVars, thrVars, smpVars, upd, envVars, sigVars,
                   sigInLoop, tickAfterExit, cleanups, afterDone, call, purged,
                   draws, shortened>>

ProgressNext == progress_update

ProgressSpec == ProgressInit /\ [][ProgressNext]_vars

-----------------------------------------------------------------------------
(* shorten_file_path on its own: one call, on any path, limit and HOME *)

ShortenInit == Init

MaxLengths == 0..(MaxPathLen + 1)

shorten_call ==
    /\ shortened = None
    /\ \E max_length \in MaxLengths, file_path \in FilePaths, home \in Homes :
          shortened' = <<[max_length |-> max_length, file_path |-> file_path, home |-> home,
                          result |-> shorten_file_path(max_length, file_path, home)]>>
    /\ UNCHANGED <<supVars, procVars, thrVars, smpVars, prgVars, boxVars, envVars,
                   sigVars, sigInLoop, tickAfterExit, cleanups, afterDone, call, purged,
                   screen, draws, mapped>>

ShortenNext == shorten_call

ShortenSpec == ShortenInit /\ [][ShortenNext]_vars

-----------------------------------------------------------------------------
(* The BottomBox on its own: any sequence of update calls whose renderer     *)
(* returns any number of lines, then cleanup; the terminal keeps its size    *)
(* and the cursor starts on any row                                          *)

RendererInit == \E c \in 1..MaxRows : Boot(c) /\ tty = TRUE

(* the record kept of a call made to the BottomBox *)
DrawRecord(op, n, before, toks, height, sc, scr) ==
    [op |-> op, n |-> n, rows |-> rows, before |-> before, toks |-> toks,
     height |-> height, scroll |-> sc, screen |-> scr]

(* the last two calls *)
LastTwo(s) == IF Len(s) > 2 THEN SubSeq(s, Len(s) - 1, Len(s)) ELSE s

(* BottomBox.update(), the renderer returning n lines *)
box_update ==
    /\ cleanups = 0
    /\ \E n \in 0..MaxLines :
          LET toks == buffer \o UpdateHead(last_height, n, rows) \o UpdateBody(n, rows) IN
          /\ last_height' = n
          /\ scroll' = FlushScroll(scroll, toks)
          /\ screen' = FlushScreen(screen, scroll, toks, rows)
          /\ buffer' = <<>>
          /\ draws' = LastTwo(Append(draws, DrawRecord("update", n, last_height, toks,
                                                       last_height', scroll', screen')))
    /\ UNCHANGED <<supVars, procVars, thrVars, smpVars, prgVars, upd, envVars, sigVars,
                   sigInLoop, tickAfterExit, cleanups, afterDone, call, purged,
                   mapped, shortened>>

(* BottomBox.cleanup() *)
box_cleanup ==
    /\ cleanups = 0
    /\ cleanups' = 1
    /\ LET toks == buffer \o CleanupToks(last_height, rows) IN
       /\ scroll' = FlushScroll(scroll, toks)
       /\ screen' = FlushScreen(screen, scroll, toks, rows)
       /\ buffer' = <<>>
       /\ draws' = LastTwo(Append(draws, DrawRecord("cleanup", 0, last_height, toks,
                                                    last_height, scroll', screen')))
    /\ UNCHANGED <<supVars, procVars, thrVars, smpVars, prgVars, last_height, upd,
                   envVars, sigVars, sigInLoop, tickAfterExit, afterDone, call, purged,
                   mapped, shortened>>

RendererNext == box_update \/ box_cleanup

RendererSpec == RendererInit /\ [][RendererNext]_vars

-----------------------------------------------------------------------------
(* Properties *)

(* the main thread ended by itself: exit(ret), or an unhandled exception *)
HostEnded == pc \in {"exited", "raised"}

(* neither sampling nor the terminal raised an error *)
NoFault == tty /\ exc # "FileNotFoundError"

(* C1, as stated: once the display loop has dequeued "done", exactly one     *)
(* further sample + update + redraw is performed, and it comes before the    *)
(* renderer's cleanup.                                                       *)
C1_OneFinalRedrawBeforeCleanup ==
    (stop /\ cleanups >= 1) => afterDone = 1

(* C1, amended: once the display loop has dequeued "done" it performs no     *)
(* further sample, update or redraw; it has left the loop, and its last      *)
(* redraw was completed before the dequeue.                                  *)
C1_NoRedrawAfterDone ==
    stop => (afterDone = 0 /\ pc \notin LoopPcs)

C1_Witness ==
    stop /\ cleanups = 1 /\ pc = "exited" /\ interrupts = 0

(* C2: from the first buffered write of the display loop's redraw until its  *)
(* flush, no other redraw writes, flushes or sets last_height: what the loop *)
(* wrote is still in the buffer, and last_height is the height it recorded.  *)
C2_RedrawsNeverInterleave ==
    pc \in MidUpdatePcs => (Len(buffer) >= 2 /\ last_height = upd.n)

(* C3: on every way out of the host after the display has started,           *)
(* BottomBox.cleanup has been called exactly once.                           *)
C3_CleanupExactlyOnce ==
    (pc \in EndPcs /\ process_thread # "new") => cleanups = 1

(* C4: after an interrupt received while the display loop was active, the    *)
(* host ends only by exit(ret) with the child's return code, the child       *)
(* having exited; whatever the number of interrupts.                         *)
C4_InterruptThenChildExitCode ==
    ("SIGINT" \in sigInLoop /\ HostEnded /\ tty)
        => (pc = "exited" /\ proc = "exited" /\ ret = returncode
            /\ hostStatus = <<ExitStatus(returncode[1])>>)

(* C5: after a termination request received while the display loop was       *)
(* active, SIGTERM has been forwarded to the child (unless it was gone) and  *)
(* the host ends by exit(ret) with the child's return code.                  *)
C5_TermForwardedThenChildExitCode ==
    ("SIGTERM" \in sigInLoop /\ pc \in EndPcs)
        => (pc = "exited" /\ proc = "exited" /\ ret = returncode
            /\ ("SIGTERM" \in {sent[i] : i \in DOMAIN sent} \/ returncode[1] >= 0))

(* C6: when the host was not signalled and nothing failed, the host ends by  *)
(* exit with the child's exit status, whatever its value, and does not reach *)
(* its exit before the child has exited.                                     *)
C6_ExitCodePropagated ==
    /\ (pc \in EndPcs /\ interrupts = 0 /\ pc # "killed" /\ NoFault)
           => (pc = "exited" /\ hostStatus = returncode)
    /\ (pc \in {"main_exit", "exited"} /\ interrupts = 0) => proc = "exited"

C6_Witness ==
    pc = "exited" /\ interrupts = 0 /\ NoFault /\ returncode = <<255>>
        /\ hostStatus = <<255>>

(* the display loop is over: print_progress has been left, its finally       *)
(* clause included                                                           *)
LoopLeft == pc \notin LoopPcs \cup {"pp_finally"}

(* no signal ended or interrupted the host, and nothing raised an error *)
Undisturbed == interrupts = 0 /\ pc # "killed" /\ NoFault

(* C7: if the child exits while the display loop runs then, the watcher and  *)
(* the main thread being scheduled fairly, the display loop is eventually    *)
(* left, and when nothing disturbed it, it was left by dequeuing "done" and  *)
(* after one call of cleanup.  No fairness is assumed of the timer: no tick  *)
(* enqueued after the exit is needed.                                        *)
C7_DoneEndsLoop ==
    (proc = "exited" /\ pc \in LoopPcs)
        ~> (LoopLeft /\ (Undisturbed => (stop /\ cleanups = 1)))

C7_Witness ==
    /\ LoopLeft /\ Undisturbed /\ stop /\ cleanups = 1
    /\ proc = "exited" /\ ~tickAfterExit /\ pc = "main_finally"

(* C8: when the terminal size query fails in the display loop's redraw (no   *)
(* signal reached the host, the last sample was handed to Progress.update),  *)
(* the host still ends by exit with the child's return code, not by an       *)
(* unhandled error.                                                          *)
C8_TerminalFailureConfined ==
    (~tty /\ HostEnded /\ interrupts = 0 /\ resizes = 0
          /\ ~call.made /\ process_thread # "new")
        => (pc = "exited" /\ ret = returncode
            /\ hostStatus = <<ExitStatus(returncode[1])>>)

(* C9: a NoSuchProcess or AccessDenied failure of the enumeration never      *)
(* leaves list_files: the call returns an empty list, the cache is left      *)
(* empty, and the display loop goes on with Progress.update.                 *)
C9_EnumerationFailureSwallowed ==
    /\ exc \notin {"NoSuchProcess", "AccessDenied"}
    /\ (call.made /\ call.enum # "ok")
           => (call.raised = "none" /\ out = <<>> /\ DOMAIN files_cache = {})
    /\ (call.made /\ call.enum # "ok" /\ pc \in LoopPcs) => pc = "pp_update"

C9_Witness ==
    /\ call.made /\ call.enum = "NoSuchProcess" /\ proc = "exited"
    /\ pc = "pp_update" /\ files # <<>>

(* C10: after each call of list_files that returns, the cache holds no path  *)
(* that the call's read-mode descriptor list lacks (none at all after a      *)
(* failed enumeration), and a path the cache did not hold before the call,   *)
(* one purged earlier included, has the size getsize yields at this call.    *)
C10_CachePurgedAndFresh ==
    (call.made /\ call.raised = "none")
        => /\ DOMAIN files_cache \subseteq call.listed
           /\ \A p \in DOMAIN call.fresh :
                  p \in DOMAIN files_cache /\ <<files_cache[p]>> = call.fresh[p]

C10_Witness ==
    /\ call.made /\ call.raised = "none"
    /\ \E p \in DOMAIN call.fresh :
          /\ purged[p] # None
          /\ <<files_cache[p]>> # purged[p]

(* C11: after each Progress.update call the mapping holds exactly one entry  *)
(* for each path of the argument and none for any other path; a path that    *)
(* had an entry before the call keeps the very same handle and only has its  *)
(* FileInfo replaced; a path that had none, one dropped earlier included,    *)
(* gets a handle constructed by this call.                                   *)
C11_OneEntryPerPathSameHandle ==
    mapped.made =>
        /\ PathsOf(files) = {mapped.arg[i].path : i \in DOMAIN mapped.arg}
        /\ \A i, j \in DOMAIN files :
               (files[i].path = files[j].path \/ files[i].tqdm = files[j].tqdm) => i = j
        /\ \A i \in DOMAIN files :
               LET e == files[i] IN
               /\ e.info = LastInfo(mapped.arg, e.path)
               /\ IF e.path \in PathsOf(mapped.before)
                  THEN e.tqdm = mapped.before[IndexOf(mapped.before, e.path)].tqdm
                  ELSE /\ e.tqdm >= mapped.made_before
                       /\ e.tqdm < tqdm_made
                       /\ mapped.dropped[e.path] # <<e.tqdm>>

(* one path kept its entry over the last call while another, dropped by an   *)
(* earlier call, came back                                                   *)
C11_Witness ==
    /\ mapped.made
    /\ \E i, j \in DOMAIN files :
          /\ files[i].path \in PathsOf(mapped.before)
          /\ files[i].info # mapped.before[IndexOf(mapped.before, files[i].path)].info
          /\ files[j].path \notin PathsOf(mapped.before)
          /\ mapped.dropped[files[j].path] # None

(* C12, as stated: for every max_length >= 0 and every file path the string  *)
(* shorten_file_path returns is at most max_length characters long, the      *)
(* branch that truncates the path and appends an ellipsis included.          *)
C12_ResultFitsMaxLength ==
    shortened # None => Len(shortened[1].result) <= shortened[1].max_length

(* the path of a call after home abbreviation, and its segments *)
ShortenedPath == AbbreviateHome(shortened[1].file_path, shortened[1].home)

ShortenedParts == Split(ShortenedPath, "/")

(* C13, as stated: when the path, after home abbreviation, is longer than    *)
(* max_length and its file name alone fits, the result is made of whole      *)
(* trailing segments of the path, without ellipsis: the name is abbreviated  *)
(* only when the name alone does not fit.  Stated here for the limits that   *)
(* leave room for an abbreviated name (5 and more) and for a path that ends  *)
(* with a file name.                                                         *)
C13_WholeSegmentsWhenNameFits ==
    (/\ shortened # None
     /\ shortened[1].max_length >= 5
     /\ Len(ShortenedPath) > shortened[1].max_length
     /\ ShortenedParts[Len(ShortenedParts)] # <<>>
     /\ Len(ShortenedParts[Len(ShortenedParts)]) <= shortened[1].max_length)
    => \E k \in 2..Len(ShortenedParts) :
          shortened[1].result
              = PathJoin(ShortenedParts[k], SubSeq(ShortenedParts, k + 1, Len(ShortenedParts)))

(* C14: once the display loop has dequeued "done", no step takes another     *)
(* element off the queue and the main thread never stands in the loop again  *)
(* (no sample, update or redraw of the loop), while the timer may go on      *)
(* enqueuing ticks behind "done".                                            *)
C14_NothingDequeuedAfterDone ==
    [][stop => (/\ stop'
                /\ Len(display_ticks') >= Len(display_ticks)
                /\ pc' \notin LoopPcs
                /\ afterDone' = 0)]_vars

(* the host has exited after "done" and one cleanup, leaving ticks that were *)
(* enqueued behind "done", one of them after the child's exit, in the queue  *)
C14_Witness ==
    /\ stop /\ cleanups = 1 /\ pc = "exited"
    /\ display_ticks # <<>> /\ tickAfterExit
    /\ \A i \in DOMAIN display_ticks : display_ticks[i] = FALSE

(* the number of control sequences op among toks *)
CountOp(toks, op) == Cardinality({i \in DOMAIN toks : toks[i].op = op})

LastDraw == draws[Len(draws)]

(* C15, as stated: a redraw given more lines than the reserved height emits  *)
(* exactly delta = len(lines) - last_height newlines, then exactly delta     *)
(* cursor-up moves, before it draws, and records last_height = len(lines);   *)
(* from 0 reserved rows to 1 it emits one newline and one cursor-up.         *)
C15_DeltaNewlinesThenCursorUps ==
    (draws # <<>> /\ LastDraw.op = "update" /\ LastDraw.n > LastDraw.before)
        => LET delta == LastDraw.n - LastDraw.before IN
           /\ CountOp(LastDraw.toks, "nl") = delta
           /\ CountOp(LastDraw.toks, "up") = delta
           /\ \A i \in 1..delta : LastDraw.toks[i].op = "nl"
           /\ \A i \in (delta + 1)..(2 * delta) : LastDraw.toks[i].op = "up"
           /\ last_height = LastDraw.n

(* the rows the cursor is sent to by the control sequences toks *)
RowsAddressed(toks) == {toks[i].arg : i \in {j \in DOMAIN toks : toks[j].op = "row"}}

(* the last two calls were updates with as many lines on the same terminal *)
SameLinesTwice ==
    /\ Len(draws) = 2
    /\ draws[1].op = "update" /\ draws[2].op = "update"
    /\ draws[1].n = draws[2].n /\ draws[1].rows = draws[2].rows

(* C18: a second BottomBox.update with the same lines on an unchanged         *)
(* terminal emits no newline and no cursor-up, leaves last_height as it was, *)
(* sets the same scroll region, bottom row rows - len(lines), and writes the *)
(* lines to the same rows, rows - len(lines) + 1 .. rows; the terminal is    *)
(* left as the first call left it.                                           *)
C18_SecondUpdateIdempotent ==
    SameLinesTwice
        => /\ CountOp(draws[2].toks, "nl") = 0
           /\ CountOp(draws[2].toks, "up") = 0
           /\ draws[2].height = draws[1].height
           /\ last_height = draws[1].height
           /\ draws[2].scroll = draws[1].scroll
           /\ draws[2].scroll = draws[2].rows - draws[2].n
           /\ CountOp(draws[2].toks, "region") = 1
           /\ RowsAddressed(draws[2].toks) = RowsAddressed(draws[1].toks)
           /\ RowsAddressed(draws[2].toks)
                  = (draws[2].rows - draws[2].n + 1)..draws[2].rows
           /\ CountOp(draws[2].toks, "text") = draws[2].n
           /\ draws[2].screen = draws[1].screen

(* two updates in a row with MaxLines lines, the first one growing the box *)
C18_Witness ==
    /\ SameLinesTwice
    /\ draws[2].n = MaxLines /\ draws[1].before < draws[1].n
    /\ CountOp(draws[1].toks, "nl") > 0

(* C20, as stated: on a terminal that keeps its size the only rows holding   *)
(* text of the bottom box are the bottom last_height rows, whatever the      *)
(* sequence of redraws, and after cleanup no row holds any.                  *)
C20_OnlyReservedRowsHoldBoxText ==
    /\ screen.box \subseteq (rows - last_height + 1)..rows
    /\ cleanups >= 1 => screen.box = {}

(* C19, as stated: once cleanup has run on a terminal, no later step redraws *)
(* the bottom box: none records a height or sets the scroll region to        *)
(* anything but the full height of the terminal.                             *)
C19_TerminalStaysRestored ==
    [][(cleanups >= 1 /\ tty)
          => (/\ last_height' = last_height
              /\ (scroll' = scroll \/ scroll' = rows'))]_vars

(* C17: a step that delivers a resize notification, at whatever point of the *)
(* main thread, enumerates no descriptor and leaves the sampler's size cache *)
(* and list, the entries of the path -> entry mapping and their handles as   *)
(* they were.                                                                *)
C17_ResizeOnlyRedraws ==
    [][resizes' # resizes
          => (/\ call' = call
              /\ files_cache' = files_cache /\ out' = out
              /\ PathsOf(files') = PathsOf(files)
              /\ files' = files /\ tqdm_made' = tqdm_made)]_vars

(* a resize arrived in the middle of the display loop's redraw, the cache    *)
(* and the mapping holding a path: the handler flushed what the loop had     *)
(* buffered and redrew the box on the resized terminal                       *)
C17_Witness ==
    /\ resizes = 1 /\ pc = "upd_body" /\ buffer = <<>>
    /\ files # <<>> /\ DOMAIN files_cache # {}
    /\ rows = MaxRows - 1 /\ scroll = rows - Len(files)

(* C16, as stated: every FileInfo a call of list_files returns is that of a  *)
(* path the child holds a read-mode descriptor on, and the returned list     *)
(* holds at most one FileInfo per path, whatever the number of read-mode     *)
(* descriptors on that path.                                                 *)
C16_ReadModeOnlyOnePerPath ==
    (call.made /\ call.raised = "none")
        => /\ \A i \in DOMAIN out : out[i].path \in call.listed
           /\ \A i, j \in DOMAIN out : out[i].path = out[j].path => i = j

=============================================================================
